---------------------------- MODULE Spec2Model ----------------------------
(***************************************************************************)
(* A model of Scraping/scraper.py: create_session, fetch, parse_products,  *)
(* save_csv and main.                                                      *)
(*                                                                         *)
(* Text is a sequence of one-character strings.  A Python value that may   *)
(* be None carries its type: [t |-> "str", v |-> <<"a">>],                 *)
(* [t |-> "int", v |-> 3], [t |-> "NoneType", ...].  A dict is the         *)
(* sequence of its [k, v] items in insertion order.                        *)
(***************************************************************************)
EXTENDS Integers, Sequences, FiniteSets, TLC

VARIABLES
    pc,         \* position of the running call
    caller,     \* "main" when main runs the call, "" for a direct call
    raised,     \* the exception that ended the call, "" when none
    log,        \* the records logged through LOG, oldest first
    \* parse_products
    html,       \* the document (the body fetch returned)
    max_items,  \* the cap argument
    items,      \* the list parse_products returned / save_csv is given
    \* create_session and fetch
    retries,    \* Retry(total=retries) of the mounted adapter
    total,      \* what is left of Retry.total for the current request
    tries,      \* GETs sent for the current request
    gets,       \* GETs sent by this fetch
    redirects,  \* redirects followed by this fetch
    last,       \* how the latest GET ended
    err_status, \* HTTPError.response.status_code, 0 when none
    \* save_csv
    fs,         \* the file at the output path
    opens,      \* how often the file was opened for writing
    \* main
    args,       \* the parsed command line
    trace,      \* the stages main started, in order
    exit_status \* the process's exit status, -1 while it runs

parseVars == <<html, max_items, items>>

fetchVars == <<retries, total, tries, gets, redirects, last, err_status>>

csvVars == <<fs, opens>>

mainVars == <<args, trace, exit_status>>

vars == <<pc, caller, raised, log, parseVars, fetchVars, csvVars, mainVars>>

----------------------------------------------------------------------------
(* Python values *)

PyStr(s) == [t |-> "str", v |-> s]

PyInt(n) == [t |-> "int", v |-> n]

NoneStr == [t |-> "NoneType", v |-> <<>>]

NoneInt == [t |-> "NoneType", v |-> 0]

\* Truthy with 0 taken for a cap
TruthyNotNone(x) == x.t # "NoneType"

\* bool(x) for an int or None: None and 0 are falsy.
Truthy(x) == x.t # "NoneType" /\ x.v # 0

Whitespace == {" ", "\t", "\n", "\r"}

RECURSIVE LStrip(_)
LStrip(s) ==
    IF s # <<>> /\ Head(s) \in Whitespace THEN LStrip(Tail(s)) ELSE s

RECURSIVE RStrip(_)
RStrip(s) ==
    IF s # <<>> /\ s[Len(s)] \in Whitespace
    THEN RStrip(SubSeq(s, 1, Len(s) - 1))
    ELSE s

\* str.strip()
Strip(s) == RStrip(LStrip(s))

----------------------------------------------------------------------------
(* The parsed document.  A block is a top-level element of the page with    *)
(* the elements below it in document order; an element keeps what the       *)
(* selectors and the extraction read: tag, classes, whether a div.ratings   *)
(* is among its ancestors, its href attribute and its text nodes.           *)

Elem(tag, cls, anc, href, strings) ==
    [tag |-> tag, cls |-> cls, underRatings |-> anc, href |-> href,
     strings |-> strings]

Elements ==
    { Elem("a", {"title"}, FALSE, PyStr(<<"/", "t">>), << <<" ", "T">> >>),
      Elem("a", {}, FALSE, NoneStr, << <<"A", " ">>, <<" ", "b", " ">> >>),
      Elem("h4", {"price"}, FALSE, NoneStr, << <<"$", "1">> >>),
      Elem("span", {"price"}, FALSE, NoneStr, << <<" ", "$", "2", " ">> >>),
      Elem("p", {"description"}, FALSE, NoneStr, << <<"D">> >>),
      Elem("p", {"pull-right"}, TRUE, NoneStr, << <<"9">>, <<" ", "r">> >>),
      Elem("div", {"ratings"}, FALSE, NoneStr, << <<" ", "R">> >>) }

Block(cls, elems) == [tag |-> "div", cls |-> cls, elems |-> elems]

\* The simple and the descendant selectors scraper.py uses, matched against
\* one element.
Matches(sel, e) ==
    CASE sel = "div.thumbnail" -> e.tag = "div" /\ "thumbnail" \in e.cls
      [] sel = "a.title" -> e.tag = "a" /\ "title" \in e.cls
      [] sel = "a" -> e.tag = "a"
      [] sel = "h4.price" -> e.tag = "h4" /\ "price" \in e.cls
      [] sel = ".price" -> "price" \in e.cls
      [] sel = "p.description" -> e.tag = "p" /\ "description" \in e.cls
      [] sel = "p" -> e.tag = "p"
      [] sel = "div.ratings p.pull-right" ->
            e.tag = "p" /\ "pull-right" \in e.cls /\ e.underRatings
      [] sel = ".ratings" -> "ratings" \in e.cls
      [] OTHER -> FALSE

\* soup.select(sel): the matching blocks in document order.
Select(doc, sel) == SelectSeq(doc, LAMBDA b : Matches(sel, b))

RECURSIVE SelectFrom(_, _, _)
SelectFrom(c, sel, i) ==
    IF i > Len(c.elems) THEN 0
    ELSE IF Matches(sel, c.elems[i]) THEN i
    ELSE SelectFrom(c, sel, i + 1)

\* c.select_one(sel): the index of the first match below c, 0 for None.
SelectOne(c, sel) == SelectFrom(c, sel, 1)

\* OrTag preferring the fallback
OrTagFallbackFirst(a, b) == IF b # 0 THEN b ELSE a

\* a or b, for two select_one results (a Tag is always truthy).
OrTag(a, b) == IF a # 0 THEN a ELSE b

RECURSIVE JoinStripped(_)
JoinStripped(strings) ==
    IF strings = <<>> THEN <<>>
    ELSE Strip(Head(strings)) \o JoinStripped(Tail(strings))

\* tag.get_text(strip=True); on None it is an AttributeError.
GetText(c, tag) ==
    IF tag = 0 THEN [t |-> "AttributeError", v |-> <<>>]
    ELSE PyStr(JoinStripped(c.elems[tag].strings))

\* tag.get("href"); on None it is an AttributeError.
GetHref(c, tag) ==
    IF tag = 0 THEN [t |-> "AttributeError", v |-> <<>>]
    ELSE c.elems[tag].href

\* x.get_text(strip=True) if x else ""
TextOrEmpty(c, tag) == IF tag # 0 THEN GetText(c, tag) ELSE PyStr(<<>>)

\* x.get("href") if x else ""
HrefOrEmpty(c, tag) == IF tag # 0 THEN GetHref(c, tag) ELSE PyStr(<<>>)

KeyTitle == <<"t", "i", "t", "l", "e">>

KeyPrice == <<"p", "r", "i", "c", "e">>

KeyDescription ==
    <<"d", "e", "s", "c", "r", "i", "p", "t", "i", "o", "n">>

KeyReviews == <<"r", "e", "v", "i", "e", "w", "s">>

KeyUrl == <<"u", "r", "l">>

Item(k, v) == [k |-> k, v |-> v]

\* The body of the for loop up to the dict literal: one container's record.
ExtractRecord(c) ==
    LET title_tag == OrTag(SelectOne(c, "a.title"), SelectOne(c, "a"))
        price_tag == OrTag(SelectOne(c, "h4.price"), SelectOne(c, ".price"))
        desc_tag == OrTag(SelectOne(c, "p.description"), SelectOne(c, "p"))
        reviews_tag == OrTag(SelectOne(c, "div.ratings p.pull-right"),
                             SelectOne(c, ".ratings"))
    IN  << Item(KeyTitle, TextOrEmpty(c, title_tag)),
           Item(KeyPrice, TextOrEmpty(c, price_tag)),
           Item(KeyDescription, TextOrEmpty(c, desc_tag)),
           Item(KeyReviews, TextOrEmpty(c, reviews_tag)),
           Item(KeyUrl, HrefOrEmpty(c, title_tag)) >>

\* CapReached one record late
CapReachedLate(acc, cap) == Truthy(cap) /\ Len(acc) > cap.v

\* CapReached with a negative cap taken for no cap
CapReachedPositive(acc, cap) ==
    cap.t = "int" /\ cap.v > 0 /\ Len(acc) >= cap.v

\* if max_items and len(items) >= max_items: break
CapReached(acc, cap) == Truthy(cap) /\ Len(acc) >= cap.v

RECURSIVE ParseLoop(_, _, _, _)
ParseLoop(containers, i, acc, cap) ==
    IF i > Len(containers) THEN acc
    ELSE LET acc2 == Append(acc, ExtractRecord(containers[i]))
         IN  IF CapReached(acc2, cap) THEN acc2
             ELSE ParseLoop(containers, i + 1, acc2, cap)

HasError(rec) == \E j \in 1..Len(rec) : rec[j].v.t = "AttributeError"

\* parse_products(html, max_items): the list returned, or the exception.
ParseProducts(doc, cap) ==
    LET out == ParseLoop(Select(doc, "div.thumbnail"), 1, <<>>, cap)
    IN  IF \E i \in 1..Len(out) : HasError(out[i])
        THEN [items |-> <<>>, raised |-> "AttributeError"]
        ELSE [items |-> out, raised |-> ""]

----------------------------------------------------------------------------
(* The inputs of parse_products *)

MaxBlocks == 2

MaxElems == 2

MaxLimit == 2

RECURSIVE SeqsOfLen(_, _)
SeqsOfLen(S, n) ==
    IF n = 0 THEN {<<>>}
    ELSE { Append(s, x) : s \in SeqsOfLen(S, n - 1), x \in S }

SeqsUpTo(S, n) == UNION { SeqsOfLen(S, k) : k \in 0..n }

\* The top-level blocks with at most m elements below them: a product
\* container, or another div.
BlocksUpTo(m) ==
    { Block({"thumbnail"}, es) : es \in SeqsUpTo(Elements, m) }
        \cup { Block({"caption"}, <<>>) }

\* The documents of n blocks with at most m elements overall.
RECURSIVE DocsOf(_, _)
DocsOf(n, m) ==
    IF n = 0 THEN {<<>>}
    ELSE UNION { { <<b>> \o d : d \in DocsOf(n - 1, m - Len(b.elems)) } :
                 b \in BlocksUpTo(m) }

Docs == UNION { DocsOf(n, MaxElems) : n \in 0..MaxBlocks }

\* main: max_items=(args.limit or None)
LimitOrNone(limit) == IF limit # 0 THEN PyInt(limit) ELSE NoneInt

Limits == (-1)..MaxLimit

\* max_items as a caller of parse_products, or main, passes it.
Caps == {NoneInt} \cup { PyInt(k) : k \in Limits }
            \cup { LimitOrNone(k) : k \in Limits }

----------------------------------------------------------------------------
(* create_session and fetch.  session.get sends the GET through the        *)
(* HTTPAdapter mounted with Retry(total=retries, status_forcelist=...,      *)
(* allowed_methods=("GET", "HEAD")); urllib3 re-sends it while              *)
(* Retry.is_retry says so and Retry.total is not used up, requests follows  *)
(* redirects (allow_redirects defaults to True for get) with a fresh copy   *)
(* of the adapter's Retry for each request, and raise_for_status raises     *)
(* HTTPError for a 4xx or 5xx status.                                       *)

DefaultRetries == 3

StatusForcelist == {500, 502, 503, 504}

\* urllib3's Retry.RETRY_AFTER_STATUS_CODES; respect_retry_after_header
\* keeps its default, True.
RetryAfterStatusCodes == {413, 429, 503}

\* requests' REDIRECT_STATI
RedirectStati == {301, 302, 303, 307, 308}

\* Session.max_redirects, left at its default by requests.Session().
MaxRedirects == 30

Resp(status, location, retry_after, body) ==
    [kind |-> "response", status |-> status, location |-> location,
     retry_after |-> retry_after, body |-> body]

\* The GET failed without a response: connection error or timeout.
NetworkError ==
    [kind |-> "error", status |-> 0, location |-> FALSE,
     retry_after |-> FALSE, body |-> <<>>]

NoOutcome ==
    [kind |-> "none", status |-> 0, location |-> FALSE,
     retry_after |-> FALSE, body |-> <<>>]

\* The pages a server answers with.
Bodies ==
    { <<>>,
      << Block({"thumbnail"},
               << Elem("a", {}, FALSE, NoneStr, << <<"A", ",">> >>) >>) >>,
      << Block({"thumbnail"},
               << Elem("a", {"title"}, FALSE, PyStr(<<"/", "t">>),
                       << <<"T">> >>) >>),
         Block({"thumbnail"}, <<>>) >> }

\* What a server may answer to one GET.
Responses ==
    { Resp(st, FALSE, FALSE, b) : st \in {200, 302, 304}, b \in Bodies }
        \cup { Resp(302, TRUE, FALSE, <<>>) }
        \cup { Resp(st, FALSE, FALSE, <<>>) :
               st \in {404, 429, 500, 502, 503, 504} }
        \cup { Resp(st, FALSE, TRUE, <<>>) : st \in {429, 503} }

\* IsRetry with every error status retried
IsRetryAnyError(status, retry_after, left) == status >= 400

\* Retry.is_retry("GET", status, has_retry_after) with `left` = Retry.total
IsRetry(status, retry_after, left) ==
    \/ status \in StatusForcelist
    \/ left # 0 /\ retry_after /\ status \in RetryAfterStatusCodes

\* Response.is_redirect
IsRedirect(out) == out.location /\ out.status \in RedirectStati

\* RaisesForStatus for server errors only
RaisesForServerError(status) == 500 <= status /\ status < 600

\* Response.raise_for_status raises
RaisesForStatus(status) == 400 <= status /\ status < 600

\* fetch: LOG.info("Fetching %s", url), then session.get starts the request
\* with the adapter's Retry.
FetchBegin ==
    /\ pc = "fetch"
    /\ log' = Append(log, "INFO Fetching")
    /\ total' = retries
    /\ tries' = 0
    /\ pc' = "get"
    /\ UNCHANGED <<caller, raised, parseVars, retries, gets, redirects, last,
                   err_status, csvVars, mainVars>>

\* Retry.increment: one less of total; exhausted below 0, and then
\* MaxRetryError, which requests raises as `exc`.
Increment(exc) ==
    IF total - 1 < 0
    THEN /\ raised' = exc
         /\ pc' = "raised"
         /\ total' = total
    ELSE /\ total' = total - 1
         /\ UNCHANGED <<raised, pc>>

\* A GET that ends in a connection error or a timeout.
GetError ==
    /\ pc = "get"
    /\ gets' = gets + 1
    /\ tries' = tries + 1
    /\ last' = NetworkError
    /\ Increment("ConnectionError")
    /\ UNCHANGED <<caller, log, parseVars, retries, redirects, err_status,
                   csvVars, mainVars>>

\* A GET answered with a status urllib3 retries.
GetRetried ==
    /\ pc = "get"
    /\ \E out \in Responses :
        /\ IsRetry(out.status, out.retry_after, total)
        /\ last' = out
    /\ gets' = gets + 1
    /\ tries' = tries + 1
    /\ Increment("RetryError")
    /\ UNCHANGED <<caller, log, parseVars, retries, redirects, err_status,
                   csvVars, mainVars>>

\* A GET answered with a redirect: Session.resolve_redirects sends the next
\* request, or raises TooManyRedirects.
GetRedirect ==
    /\ pc = "get"
    /\ \E out \in Responses :
        /\ ~IsRetry(out.status, out.retry_after, total)
        /\ IsRedirect(out)
        /\ last' = out
    /\ gets' = gets + 1
    /\ IF redirects >= MaxRedirects
       THEN /\ raised' = "TooManyRedirects"
            /\ pc' = "raised"
            /\ tries' = tries + 1
            /\ UNCHANGED <<redirects, total>>
       ELSE /\ redirects' = redirects + 1
            /\ total' = retries
            /\ tries' = 0
            /\ UNCHANGED <<raised, pc>>
    /\ UNCHANGED <<caller, log, parseVars, retries, err_status, csvVars,
                   mainVars>>

\* A GET answered with the response session.get returns: fetch raises for
\* its status or returns its text.
GetFinal ==
    /\ pc = "get"
    /\ \E out \in Responses :
        /\ ~IsRetry(out.status, out.retry_after, total)
        /\ ~IsRedirect(out)
        /\ last' = out
        /\ IF RaisesForStatus(out.status)
           THEN /\ raised' = "HTTPError"
                /\ err_status' = out.status
                /\ pc' = "raised"
                /\ UNCHANGED html
           ELSE /\ html' = out.body
                /\ pc' = "fetched"
                /\ UNCHANGED <<raised, err_status>>
    /\ gets' = gets + 1
    /\ tries' = tries + 1
    /\ UNCHANGED <<caller, log, max_items, items, retries, total, redirects,
                   csvVars, mainVars>>

Fetch == FetchBegin \/ GetError \/ GetRetried \/ GetRedirect \/ GetFinal

----------------------------------------------------------------------------
(* save_csv *)

NoFile == [exists |-> FALSE, data |-> <<>>]

File(data) == [exists |-> TRUE, data |-> data]

Keys(d) == [j \in 1..Len(d) |-> d[j].k]

KeySet(d) == { d[j].k : j \in 1..Len(d) }

\* rowdict.get(key, restval), restval = ""
DictGet(d, key) ==
    IF key \in KeySet(d)
    THEN (CHOOSE it \in { d[j] : j \in 1..Len(d) } : it.k = key).v
    ELSE PyStr(<<>>)

\* The csv writer writes None as the empty string.
FieldText(v) == IF v.t = "NoneType" THEN <<>> ELSE v.v

\* NeedsQuotes without the line terminator's characters
NeedsQuotesNoNewline(s) == \E j \in 1..Len(s) : s[j] \in {",", "\""}

\* QUOTE_MINIMAL: the delimiter, the quotechar and the characters of the
\* lineterminator "\r\n" make a field quoted.
NeedsQuotes(s) == \E j \in 1..Len(s) : s[j] \in {",", "\"", "\r", "\n"}

RECURSIVE DoubleQuotes(_)
DoubleQuotes(s) ==
    IF s = <<>> THEN <<>>
    ELSE (IF Head(s) = "\"" THEN <<"\"", "\"">> ELSE <<Head(s)>>)
             \o DoubleQuotes(Tail(s))

WriteField(s) ==
    IF NeedsQuotes(s) THEN <<"\"">> \o DoubleQuotes(s) \o <<"\"">> ELSE s

RECURSIVE JoinFields(_)
JoinFields(fields) ==
    IF Len(fields) = 1 THEN WriteField(fields[1])
    ELSE WriteField(Head(fields)) \o <<",">> \o JoinFields(Tail(fields))

\* writer.writerow: a row of one empty field is written quoted.
WriteRow(fields) ==
    (IF fields = << <<>> >> THEN <<"\"", "\"">> ELSE JoinFields(fields))
        \o <<"\r", "\n">>

\* DictWriter._dict_to_list with extrasaction="raise"
DictToList(d, fieldnames) ==
    [j \in 1..Len(fieldnames) |-> FieldText(DictGet(d, fieldnames[j]))]

RECURSIVE WriteRows(_, _, _, _)
WriteRows(its, i, fieldnames, data) ==
    IF i > Len(its) THEN [data |-> data, raised |-> ""]
    ELSE IF ~(KeySet(its[i]) \subseteq { fieldnames[j] :
                                           j \in 1..Len(fieldnames) })
    THEN [data |-> data, raised |-> "ValueError"]
    ELSE WriteRows(its, i + 1, fieldnames,
                   data \o WriteRow(DictToList(its[i], fieldnames)))

\* SaveCsv opening the file before it looks at the list
SaveCsvOpenFirst(its, f, can_open) ==
    IF ~can_open
    THEN [file |-> f, opened |-> 0, raised |-> "OSError", log |-> <<>>]
    ELSE IF its = <<>>
    THEN [file |-> File(<<>>), opened |-> 1, raised |-> "",
          log |-> <<"WARNING No items to save">>]
    ELSE LET keys == Keys(its[1])
             w == WriteRows(its, 1, keys, WriteRow(keys))
         IN  [file |-> File(w.data), opened |-> 1, raised |-> w.raised,
              log |-> IF w.raised = "" THEN <<"INFO Saved">> ELSE <<>>]

\* save_csv(items, filename) on the file `f`; `can_open` is whether
\* open(filename, "w") succeeds.
SaveCsv(its, f, can_open) ==
    IF its = <<>>
    THEN [file |-> f, opened |-> 0, raised |-> "",
          log |-> <<"WARNING No items to save">>]
    ELSE IF ~can_open
    THEN [file |-> f, opened |-> 0, raised |-> "OSError", log |-> <<>>]
    ELSE LET keys == Keys(its[1])
             w == WriteRows(its, 1, keys, WriteRow(keys))
         IN  [file |-> File(w.data), opened |-> 1, raised |-> w.raised,
              log |-> IF w.raised = "" THEN <<"INFO Saved">> ELSE <<>>]

\* Reading the file back, as csv.reader does on a file opened with
\* newline="": the rows, each the sequence of its fields.
EndOfLine(d, i) ==
    IF d[i] = "\r" /\ i < Len(d) /\ d[i + 1] = "\n" THEN i + 2 ELSE i + 1

RECURSIVE ReadFrom(_, _, _, _, _, _)
ReadFrom(d, i, st, field, row, rows) ==
    IF i > Len(d)
    THEN IF st = "START_RECORD" THEN rows
         ELSE Append(rows, Append(row, field))
    ELSE LET c == d[i]
             eol == c \in {"\r", "\n"}
         IN
         CASE st = "START_RECORD" ->
                IF eol
                THEN ReadFrom(d, EndOfLine(d, i), "START_RECORD", <<>>, <<>>,
                              Append(rows, <<>>))
                ELSE ReadFrom(d, i, "START_FIELD", <<>>, <<>>, rows)
           [] st = "START_FIELD" ->
                IF eol
                THEN ReadFrom(d, EndOfLine(d, i), "START_RECORD", <<>>, <<>>,
                              Append(rows, Append(row, <<>>)))
                ELSE IF c = "\""
                THEN ReadFrom(d, i + 1, "IN_QUOTED_FIELD", <<>>, row, rows)
                ELSE IF c = ","
                THEN ReadFrom(d, i + 1, "START_FIELD", <<>>,
                              Append(row, <<>>), rows)
                ELSE ReadFrom(d, i + 1, "IN_FIELD", <<c>>, row, rows)
           [] st = "IN_FIELD" ->
                IF eol
                THEN ReadFrom(d, EndOfLine(d, i), "START_RECORD", <<>>, <<>>,
                              Append(rows, Append(row, field)))
                ELSE IF c = ","
                THEN ReadFrom(d, i + 1, "START_FIELD", <<>>,
                              Append(row, field), rows)
                ELSE ReadFrom(d, i + 1, "IN_FIELD", Append(field, c), row,
                              rows)
           [] st = "IN_QUOTED_FIELD" ->
                IF c = "\""
                THEN ReadFrom(d, i + 1, "QUOTE_IN_QUOTED_FIELD", field, row,
                              rows)
                ELSE ReadFrom(d, i + 1, "IN_QUOTED_FIELD", Append(field, c),
                              row, rows)
           [] OTHER ->  \* QUOTE_IN_QUOTED_FIELD
                IF c = "\""
                THEN ReadFrom(d, i + 1, "IN_QUOTED_FIELD", Append(field, c),
                              row, rows)
                ELSE IF c = ","
                THEN ReadFrom(d, i + 1, "START_FIELD", <<>>,
                              Append(row, field), rows)
                ELSE IF eol
                THEN ReadFrom(d, EndOfLine(d, i), "START_RECORD", <<>>, <<>>,
                              Append(rows, Append(row, field)))
                ELSE ReadFrom(d, i + 1, "IN_FIELD", Append(field, c), row,
                              rows)

ReadCsv(d) == ReadFrom(d, 1, "START_RECORD", <<>>, <<>>, <<>>)

CallSaveCsv ==
    /\ pc = "save_csv"
    /\ \E can_open \in BOOLEAN :
        LET r == SaveCsv(items, fs, can_open)
        IN  /\ fs' = r.file
            /\ opens' = opens + r.opened
            /\ log' = log \o r.log
            /\ raised' = r.raised
            /\ pc' = IF r.raised = "" THEN "returned" ELSE "raised"
    /\ UNCHANGED <<caller, parseVars, fetchVars, mainVars>>

----------------------------------------------------------------------------
(* parse_products *)

CallParseProducts ==
    /\ pc = "parse_products"
    /\ LET r == ParseProducts(html, max_items)
       IN  /\ items' = r.items
           /\ raised' = r.raised
           /\ pc' = IF r.raised = "" THEN "returned" ELSE "raised"
    /\ UNCHANGED <<caller, log, html, max_items, fetchVars, csvVars, mainVars>>

----------------------------------------------------------------------------
(* main *)

DefaultLimit == 0

Stages == <<"session", "fetch", "parse", "save", "sleep">>

\* parser.parse_args(): argparse exits with status 2 on a bad command line.
MainParseArgs ==
    /\ pc = "main"
    /\ IF args.valid
       THEN pc' = "create_session" /\ UNCHANGED exit_status
       ELSE pc' = "exited" /\ exit_status' = 2
    /\ UNCHANGED <<caller, raised, log, parseVars, fetchVars, csvVars, args,
                   trace>>

\* session = create_session(user_agent=args.user_agent)
MainCreateSession ==
    /\ pc = "create_session"
    /\ trace' = Append(trace, "session")
    /\ retries' = DefaultRetries
    /\ pc' = "call_fetch"
    /\ UNCHANGED <<caller, raised, log, parseVars, total, tries, gets,
                   redirects, last, err_status, csvVars, args, exit_status>>

\* html = fetch(args.url, session)
MainCallFetch ==
    /\ pc = "call_fetch"
    /\ trace' = Append(trace, "fetch")
    /\ pc' = "fetch"
    /\ UNCHANGED <<caller, raised, log, parseVars, fetchVars, csvVars, args,
                   exit_status>>

\* fetch's frame (its response and the request's Retry) is gone once fetch
\* has returned or its exception has left main.
FetchFrameGone ==
    /\ total' = 0
    /\ tries' = 0
    /\ gets' = 0
    /\ redirects' = 0
    /\ last' = NoOutcome
    /\ err_status' = 0

\* items = parse_products(html, max_items=(args.limit or None))
MainParse ==
    /\ pc = "fetched"
    /\ caller = "main"
    /\ trace' = Append(trace, "parse")
    /\ max_items' = LimitOrNone(args.limit)
    /\ LET r == ParseProducts(html, LimitOrNone(args.limit))
       IN  /\ items' = r.items
           /\ raised' = r.raised
           /\ pc' = IF r.raised = "" THEN "call_save" ELSE "raised"
    /\ FetchFrameGone
    /\ UNCHANGED <<caller, log, html, retries, csvVars, args, exit_status>>

\* save_csv(items, args.output)
MainSave ==
    /\ pc = "call_save"
    /\ trace' = Append(trace, "save")
    /\ \E can_open \in BOOLEAN :
        LET r == SaveCsv(items, fs, can_open)
        IN  /\ fs' = r.file
            /\ opens' = opens + r.opened
            /\ log' = log \o r.log
            /\ raised' = r.raised
            /\ pc' = IF r.raised = "" THEN "call_sleep" ELSE "raised"
    /\ UNCHANGED <<caller, parseVars, fetchVars, args, exit_status>>

\* time.sleep(args.delay): a negative delay is a ValueError.
MainSleep ==
    /\ pc = "call_sleep"
    /\ trace' = Append(trace, "sleep")
    /\ IF args.delay < 0
       THEN raised' = "ValueError" /\ pc' = "raised"
       ELSE pc' = "return" /\ UNCHANGED raised
    /\ UNCHANGED <<caller, log, parseVars, fetchVars, csvVars, args,
                   exit_status>>

\* main returns and the interpreter exits.
MainReturn ==
    /\ pc = "return"
    /\ exit_status' = 0
    /\ pc' = "exited"
    /\ UNCHANGED <<caller, raised, log, parseVars, fetchVars, csvVars, args,
                   trace>>

\* MainUncaught with the exception swallowed and the run carried on
MainCarryOn ==
    /\ pc = "raised"
    /\ caller = "main"
    /\ pc' = "call_save"
    /\ UNCHANGED <<caller, raised, log, parseVars, fetchVars, csvVars,
                   mainVars>>

\* An exception nothing in main catches: traceback, exit status 1.
MainUncaught ==
    /\ pc = "raised"
    /\ caller = "main"
    /\ exit_status' = 1
    /\ pc' = "exited"
    /\ FetchFrameGone
    /\ UNCHANGED <<caller, raised, log, parseVars, retries, csvVars, args,
                   trace>>

Main ==
    \/ MainParseArgs
    \/ MainCreateSession
    \/ MainCallFetch
    \/ MainParse
    \/ MainSave
    \/ MainSleep
    \/ MainReturn
    \/ MainUncaught

----------------------------------------------------------------------------
(* Initial states and specifications *)

MaxRetries == 3

MaxRecords == 2

MaxChars == 1

NoArgs == [limit |-> 0, delay |-> 0, valid |-> FALSE]

\* The old content of the output file, when there is one.
OldFile == File(<<"o", "l", "d", "\r", "\n", "x", "\r", "\n">>)

\* The characters of the values save_csv is given.
Alphabet == {"x", ",", "\"", "\r", "\n"}

KeyT == <<"t">>

KeyU == <<"u", ",">>

\* The keys of a record, in the order of the dict.
KeyLists == { <<KeyT>>, <<KeyT, KeyU>>, <<KeyU, KeyT>> }

\* The sequences of n values of at most m characters overall.
RECURSIVE ValueSeqs(_, _)
ValueSeqs(n, m) ==
    IF n = 0 THEN {<<>>}
    ELSE UNION { { <<v>> \o vs : vs \in ValueSeqs(n - 1, m - Len(v)) } :
                 v \in SeqsUpTo(Alphabet, m) }

MkRecord(kl, vs) == [j \in 1..Len(kl) |-> Item(kl[j], PyStr(vs[j]))]

RECURSIVE SumLen(_)
SumLen(d) == IF d = <<>> THEN 0 ELSE Len(Head(d).v.v) + SumLen(Tail(d))

\* The lists of n records of at most m characters overall.
RECURSIVE RecordLists(_, _)
RecordLists(n, m) ==
    IF n = 0 THEN {<<>>}
    ELSE UNION { { <<d>> \o ds : ds \in RecordLists(n - 1, m - SumLen(d)) } :
                 d \in UNION { { MkRecord(kl, vs) :
                                 vs \in ValueSeqs(Len(kl), m) } :
                               kl \in KeyLists } }

IdleParse == html = <<>> /\ max_items = NoneInt /\ items = <<>>

IdleFetch ==
    /\ retries = 0
    /\ total = 0
    /\ tries = 0
    /\ gets = 0
    /\ redirects = 0
    /\ last = NoOutcome
    /\ err_status = 0

IdleCsv == fs = NoFile /\ opens = 0

IdleMain == args = NoArgs /\ trace = <<>> /\ exit_status = -1

\* parse_products(html, max_items) on its own
InitParse ==
    /\ pc = "parse_products"
    /\ caller = ""
    /\ raised = ""
    /\ log = <<>>
    /\ html \in Docs
    /\ max_items \in Caps
    /\ items = <<>>
    /\ IdleFetch
    /\ IdleCsv
    /\ IdleMain

NextParse == CallParseProducts

SpecParse == InitParse /\ [][NextParse]_vars

\* fetch(url, create_session(retries=r)) on its own
InitFetch ==
    /\ pc = "fetch"
    /\ caller = ""
    /\ raised = ""
    /\ log = <<>>
    /\ IdleParse
    /\ retries \in 0..MaxRetries
    /\ total = 0
    /\ tries = 0
    /\ gets = 0
    /\ redirects = 0
    /\ last = NoOutcome
    /\ err_status = 0
    /\ IdleCsv
    /\ IdleMain

NextFetch == Fetch

SpecFetch == InitFetch /\ [][NextFetch]_vars

\* save_csv(items, filename) on its own
InitCsv ==
    /\ pc = "save_csv"
    /\ caller = ""
    /\ raised = ""
    /\ log = <<>>
    /\ html = <<>>
    /\ max_items = NoneInt
    /\ items \in UNION { RecordLists(n, MaxChars) : n \in 0..MaxRecords }
    /\ IdleFetch
    /\ fs \in {NoFile, OldFile}
    /\ opens = 0
    /\ IdleMain

NextCsv == CallSaveCsv

SpecCsv == InitCsv /\ [][NextCsv]_vars

\* The command lines main is run with: delay in half seconds.
Args ==
    [limit : {DefaultLimit, 1}, delay : {-1, 1}, valid : {TRUE}]
        \cup {NoArgs}

InitMain ==
    /\ pc = "main"
    /\ caller = "main"
    /\ raised = ""
    /\ log = <<>>
    /\ IdleParse
    /\ IdleFetch
    /\ fs \in {NoFile, OldFile}
    /\ opens = 0
    /\ args \in Args
    /\ trace = <<>>
    /\ exit_status = -1

NextMain == Main \/ Fetch

SpecMain == InitMain /\ [][NextMain]_vars

----------------------------------------------------------------------------
(* parse_products: the properties checked under SpecParse *)

Min(a, b) == IF a < b THEN a ELSE b

\* The places of the product containers (div.thumbnail) in the document.
ContainerPlaces(doc) ==
    { i \in 1..Len(doc) : doc[i].tag = "div" /\ "thumbnail" \in doc[i].cls }

NumContainers(doc) == Cardinality(ContainerPlaces(doc))

\* The n-th product container in document order.
NthContainer(doc, n) ==
    doc[CHOOSE i \in ContainerPlaces(doc) :
            Cardinality({ j \in ContainerPlaces(doc) : j <= i }) = n]

\* The first element below c that sel matches, 0 when there is none.
FirstMatch(c, sel) ==
    LET S == { j \in 1..Len(c.elems) : Matches(sel, c.elems[j]) }
    IN  IF S = {} THEN 0 ELSE CHOOSE j \in S : \A k \in S : j <= k

\* The element a field is taken from: the primary selector's first match,
\* else the fallback's, else none (0).
FieldSource(c, primary, fallback) ==
    IF FirstMatch(c, primary) # 0 THEN FirstMatch(c, primary)
    ELSE FirstMatch(c, fallback)

\* The text a field is to hold.
FieldValue(c, primary, fallback) ==
    IF FieldSource(c, primary, fallback) = 0 THEN PyStr(<<>>)
    ELSE PyStr(JoinStripped(c.elems[FieldSource(c, primary, fallback)].strings))

ParseEnded == pc \in {"returned", "raised"}

\* The i-th record returned is the record of the i-th container.
InDocumentOrder ==
    \A i \in 1..Len(items) :
        /\ i <= NumContainers(html)
        /\ items[i] = ExtractRecord(NthContainer(html, i))

\* C1: with max_items = k > 0 and n product containers, parse_products
\* returns exactly min(k, n) records, the i-th being the record of the i-th
\* container in document order.
C1_FirstKContainers ==
    (ParseEnded /\ max_items.t = "int" /\ max_items.v > 0) =>
        /\ pc = "returned"
        /\ Len(items) = Min(max_items.v, NumContainers(html))
        /\ InDocumentOrder

\* A cap below the number of containers has cut the list.
C1_Witness ==
    /\ pc = "returned"
    /\ max_items.t = "int"
    /\ max_items.v > 0
    /\ NumContainers(html) > max_items.v
    /\ Len(items) = max_items.v

FiveKeys == <<KeyTitle, KeyPrice, KeyDescription, KeyReviews, KeyUrl>>

\* C2: every record returned has the five keys, each value a string without
\* leading or trailing whitespace, and url is "" when the title element has
\* no href.
C2_FieldsAreStrippedStrings ==
    pc = "returned" =>
        \A i \in 1..Len(items) :
            /\ Len(items[i]) = 5
            /\ \A j \in 1..5 :
                /\ items[i][j].k = FiveKeys[j]
                /\ items[i][j].v.t = "str"
                /\ Strip(items[i][j].v.v) = items[i][j].v.v
            /\ LET c == NthContainer(html, i)
                   src == FieldSource(c, "a.title", "a")
               IN  (src # 0 /\ c.elems[src].href.t = "NoneType") =>
                       (items[i][5].v.t = "str" /\ items[i][5].v.v = <<>>)

\* C3: each of title, price, description, reviews is the text of the first
\* match of its primary selector, else of its fallback selector, else "";
\* url is the href of the element the title came from; and parse_products
\* never raises.
C3_PrimaryThenFallback ==
    ParseEnded =>
        /\ pc = "returned"
        /\ raised = ""
        /\ \A i \in 1..Len(items) :
            LET c == NthContainer(html, i)
                src == FieldSource(c, "a.title", "a")
            IN  /\ items[i][1] = Item(KeyTitle, FieldValue(c, "a.title", "a"))
                /\ items[i][2] =
                       Item(KeyPrice, FieldValue(c, "h4.price", ".price"))
                /\ items[i][3] =
                       Item(KeyDescription,
                            FieldValue(c, "p.description", "p"))
                /\ items[i][4] =
                       Item(KeyReviews,
                            FieldValue(c, "div.ratings p.pull-right",
                                       ".ratings"))
                /\ items[i][5].k = KeyUrl
                /\ src # 0 => items[i][5].v = c.elems[src].href

\* A container whose title link comes after a plain anchor, and one with no
\* anchor at all, have been parsed.
C3_Witness ==
    /\ pc = "returned"
    /\ Len(items) = 2
    /\ LET c == NthContainer(html, 1)
       IN  /\ FirstMatch(c, "a") # 0
           /\ FirstMatch(c, "a") < FirstMatch(c, "a.title")
           /\ items[1][1].v.v = <<"T">>
    /\ FirstMatch(NthContainer(html, 2), "a") = 0
    /\ items[2][5].v.v = <<>>

\* C9: with max_items 0 or None, as with --limit 0 or no --limit in main, no
\* cap applies: one record per product container, all of them, in document
\* order.
C9_NoCap ==
    /\ LimitOrNone(DefaultLimit).t = "NoneType"
    /\ (ParseEnded /\ (max_items.t = "NoneType" \/ max_items.v = 0)) =>
        /\ pc = "returned"
        /\ Len(items) = NumContainers(html)
        /\ InDocumentOrder

\* max_items = 0 and every one of several containers returned.
C9_Witness ==
    /\ pc = "returned"
    /\ max_items.t = "int"
    /\ max_items.v = 0
    /\ NumContainers(html) >= 2
    /\ Len(items) = NumContainers(html)

\* C10: a negative max_items, which main passes through unchanged, neither
\* lifts the cap nor is rejected: min(1, n) records are returned.
C10_NegativeCapKeepsOne ==
    /\ \A k \in { l \in Limits : l < 0 } : LimitOrNone(k) = PyInt(k)
    /\ (ParseEnded /\ max_items.t = "int" /\ max_items.v < 0) =>
        /\ pc = "returned"
        /\ Len(items) = Min(1, NumContainers(html))
        /\ InDocumentOrder

\* max_items = -1 and one record of several containers returned.
C10_Witness ==
    /\ pc = "returned"
    /\ max_items.t = "int"
    /\ max_items.v = -1
    /\ NumContainers(html) >= 2
    /\ Len(items) = 1

----------------------------------------------------------------------------
(* save_csv: the properties checked under SpecCsv *)

\* Every record has exactly the keys of the first.
WellFormed(its) == \A i \in 1..Len(its) : KeySet(its[i]) = KeySet(its[1])

\* The value record d holds under key.
ValueOf(d, key) == (CHOOSE j \in 1..Len(d) : d[j].k = key)

\* C4: after save_csv on a non-empty list of N well-formed records the file
\* holds, in place of what it held, a header row of the first record's keys
\* in their order and N data rows in input order, and reading it back gives
\* the records' fields.
C4_RoundTrip ==
    (pc \in {"returned", "raised"} /\ items # <<>> /\ WellFormed(items)
        /\ raised # "OSError") =>
        /\ pc = "returned"
        /\ fs.exists
        /\ opens = 1
        /\ LET rows == ReadCsv(fs.data)
               keys == Keys(items[1])
           IN  /\ Len(rows) = Len(items) + 1
               /\ Len(rows[1]) = Len(keys)
               /\ \A j \in 1..Len(keys) : rows[1][j] = keys[j]
               /\ \A i \in 1..Len(items) :
                    /\ Len(rows[i + 1]) = Len(keys)
                    /\ \A j \in 1..Len(keys) :
                         rows[i + 1][j] =
                             items[i][ValueOf(items[i], keys[j])].v.v

\* Two records with their keys in different orders, and a field with a quote
\* or a line break, have been saved.
C4_Witness ==
    /\ pc = "returned"
    /\ Len(items) = 2
    /\ WellFormed(items)
    /\ Keys(items[1]) # Keys(items[2])
    /\ \E i \in 1..2 : \E j \in 1..2 :
         \E n \in 1..Len(items[i][j].v.v) :
            items[i][j].v.v[n] \in {"\"", "\n"}
    /\ fs.exists

\* C5: save_csv on an empty list writes nothing and does not raise: the file
\* is as it was, present or absent, and the call returns after a warning.
C5_EmptyListWritesNothing ==
    [][(pc = "save_csv" /\ items = <<>>) =>
          /\ fs' = fs
          /\ opens' = opens
          /\ raised' = ""
          /\ pc' = "returned"
          /\ log' = Append(log, "WARNING No items to save")]_vars

\* save_csv has returned from an empty list with the old file in place.
C5_Witness ==
    /\ pc = "returned"
    /\ items = <<>>
    /\ fs = OldFile
    /\ log = <<"WARNING No items to save">>

----------------------------------------------------------------------------
(* fetch: the properties checked under SpecFetch *)

FetchEnded == pc \in {"fetched", "raised"}

\* C6 as claimed: a final status that is not 2xx makes fetch fail with an
\* HTTP status error carrying it, and the body is returned only for a 2xx.
C6_NonSuccessRaisesHTTPError ==
    (FetchEnded /\ last.kind = "response") =>
        /\ ~(200 <= last.status /\ last.status < 300) =>
              /\ pc = "raised"
              /\ raised = "HTTPError"
              /\ err_status = last.status
              /\ html = <<>>
        /\ pc = "fetched" => (200 <= last.status /\ last.status < 300)

\* C6 as amended: a final 4xx or 5xx status makes fetch fail without a body,
\* with an HTTPError carrying the status unless the status is one of 500,
\* 502, 503, 504, which ends in a RetryError; any other final status returns
\* the body, unless it is a redirect past the redirect limit.
C6_ErrorStatusRaises ==
    (FetchEnded /\ last.kind = "response") =>
        /\ (400 <= last.status /\ last.status < 600) =>
              /\ pc = "raised"
              /\ html = <<>>
              /\ IF last.status \in {500, 502, 503, 504}
                 THEN raised = "RetryError" /\ err_status = 0
                 ELSE raised = "HTTPError" /\ err_status = last.status
        /\ ~(400 <= last.status /\ last.status < 600) =>
              \/ pc = "fetched" /\ html = last.body /\ raised = ""
              \/ /\ raised = "TooManyRedirects"
                 /\ html = <<>>
                 /\ last.status \in {301, 302, 303, 307, 308}
        /\ pc = "fetched" => ~(400 <= last.status /\ last.status < 600)

\* A 503 is still answered when the retries are used up.
C6_Witness ==
    /\ pc = "raised"
    /\ retries = 3
    /\ tries = retries + 1
    /\ last.status = 503
    /\ raised = "RetryError"

\* C7 as claimed: between 1 and retries + 1 GETs, another GET being sent only
\* after a 500, 502, 503 or 504 or a connection or timeout failure.
C7_AtMostRetriesPlusOne ==
    /\ gets <= retries + 1
    /\ FetchEnded => gets >= 1
    /\ (pc = "get" /\ gets >= 1) =>
          \/ last.kind = "error"
          \/ last.status \in {500, 502, 503, 504}

\* C7 as amended: each request of the fetch, the first and one per redirect
\* followed (30 at most), is sent between 1 and retries + 1 times; it is sent
\* again only after a 500, 502, 503 or 504, a 413, 429 or 503 with a
\* Retry-After header, or a connection or timeout failure; and another
\* request is sent only after a redirect.
C7_AtMostRetriesPlusOnePerRequest ==
    /\ tries <= retries + 1
    /\ redirects <= 30
    /\ gets <= (redirects + 1) * (retries + 1)
    /\ FetchEnded => (gets >= 1 /\ tries >= 1)
    /\ (pc = "get" /\ tries >= 1) =>
          \/ last.kind = "error"
          \/ last.status \in {500, 502, 503, 504}
          \/ last.status \in {413, 429, 503} /\ last.retry_after
    /\ (pc = "get" /\ gets >= 1 /\ tries = 0) =>
          /\ last.status \in {301, 302, 303, 307, 308}
          /\ last.location
          /\ redirects >= 1

\* After a redirect, the request has been sent retries times and is about to
\* be sent once more.
C7_Witness ==
    /\ pc = "get"
    /\ retries = 3
    /\ redirects = 1
    /\ tries = retries
    /\ gets > retries + 1

----------------------------------------------------------------------------
(* main: the properties checked under SpecMain *)

IsPrefix(s, t) == Len(s) <= Len(t) /\ \A i \in 1..Len(s) : s[i] = t[i]

FetchErrors == {"HTTPError", "RetryError", "ConnectionError",
                "TooManyRedirects"}

\* C8: main's stages start in the order session, fetch, parse, save, sleep,
\* none after an error; a failed fetch leaves no parse, no file write and no
\* sleep and a non-zero exit status; a run whose stages all complete exits
\* with status 0 after the sleep.
C8_StagesInOrder ==
    /\ IsPrefix(trace, Stages)
    /\ raised # "" => pc \in {"raised", "exited"}
    /\ raised \in FetchErrors =>
          /\ trace = <<"session", "fetch">>
          /\ opens = 0
          /\ fs \in {NoFile, OldFile}
          /\ items = <<>>
          /\ exit_status # 0
          /\ pc = "exited" => exit_status = 1
    /\ raised = "OSError" => trace = <<"session", "fetch", "parse", "save">>
    /\ raised # "" /\ pc = "exited" => exit_status = 1
    /\ exit_status = 0 => (trace = Stages /\ raised = "" /\ pc = "exited")
    /\ (pc = "exited" /\ raised = "" /\ trace = Stages) => exit_status = 0
    /\ (pc = "exited" /\ trace # Stages) => exit_status # 0

\* A run that found no product has exited with status 0 without touching the
\* file.
C8_Witness ==
    /\ pc = "exited"
    /\ exit_status = 0
    /\ trace = Stages
    /\ items = <<>>
    /\ opens = 0

=============================================================================
